---- MODULE Spec2Model ----
(***************************************************************************)
(* Base Gas Estimator CLI: the transfer command (cli.js), the fee          *)
(* estimator (estimator.js), the price fetcher (price.js) and the network  *)
(* resolver and validators (utils.js), as one state machine.               *)
(*                                                                         *)
(* JavaScript strings are sequences of one-character strings, so that      *)
(* regular-expression tests, String.includes and parsing are computed.     *)
(* JavaScript BigInt values are little-endian sequences of 15-bit limbs,   *)
(* so that products beyond 2^53 are exact, as they are in the program.     *)
(***************************************************************************)
EXTENDS Integers, Sequences, FiniteSets, TLC

VARIABLES
    mode,      \* who runs: "init", then "cli" (the transfer command) or a direct
               \* call of an exported function: "estimate", "price", "utils"
    args,      \* the command line's options, or the arguments of the direct call
    pc,        \* handleTransfer: "idle", "awaitAll", "exited"
    exitCode,  \* "none" while the process runs, then "0" or "1"
    stdout,    \* the lines written with console.log
    stderr,    \* the lines written with console.error
    net,       \* the remote requests issued so far, in order
    price,     \* the promise of getEthUsdPrice
    est,       \* the promise of estimateEthTransfer and its local variables
    ret        \* the outcome of a direct call of a synchronous function

vars == <<mode, args, pc, exitCode, stdout, stderr, net, price, est, ret>>

(***************************************************************************)
(* Strings                                                                 *)
(***************************************************************************)
Digits == {"0","1","2","3","4","5","6","7","8","9"}
LowerHex == {"a","b","c","d","e","f"}
UpperHex == {"A","B","C","D","E","F"}
HexDigits == Digits \cup LowerHex \cup UpperHex

\* String.prototype.toLowerCase on the characters an address can hold
ToLowerChar(c) ==
    CASE c = "A" -> "a" [] c = "B" -> "b" [] c = "C" -> "c"
      [] c = "D" -> "d" [] c = "E" -> "e" [] c = "F" -> "f"
      [] OTHER -> c

ToLowerCase(s) == [i \in 1..Len(s) |-> ToLowerChar(s[i])]

\* String.prototype.startsWith
StartsWith(s, p) == Len(s) >= Len(p) /\ SubSeq(s, 1, Len(p)) = p

\* String.prototype.includes
Includes(s, needle) ==
    \E i \in 0..(Len(s) - Len(needle)) : SubSeq(s, i + 1, i + Len(needle)) = needle

\* Array.prototype.join
RECURSIVE Join(_, _)
Join(parts, sep) ==
    IF Len(parts) = 0 THEN <<>>
    ELSE IF Len(parts) = 1 THEN parts[1]
    ELSE parts[1] \o sep \o Join(Tail(parts), sep)

(***************************************************************************)
(* BigInt: little-endian limbs in base 2^15, no leading zero limb          *)
(***************************************************************************)
LimbBase == 2^15

RECURSIVE BigNorm(_)
BigNorm(a) ==
    IF Len(a) = 0 THEN a
    ELSE IF a[Len(a)] = 0 THEN BigNorm(SubSeq(a, 1, Len(a) - 1))
    ELSE a

RECURSIVE ToBig(_)
ToBig(n) == IF n = 0 THEN <<>> ELSE <<n % LimbBase>> \o ToBig(n \div LimbBase)

BigZero == <<>>

RECURSIVE BigAddC(_, _, _)
BigAddC(a, b, carry) ==
    IF Len(a) = 0 /\ Len(b) = 0
    THEN (IF carry = 0 THEN <<>> ELSE <<carry>>)
    ELSE LET x == IF Len(a) = 0 THEN 0 ELSE a[1]
             y == IF Len(b) = 0 THEN 0 ELSE b[1]
             s == x + y + carry
         IN  <<s % LimbBase>> \o
             BigAddC(IF Len(a) = 0 THEN a ELSE Tail(a),
                     IF Len(b) = 0 THEN b ELSE Tail(b), s \div LimbBase)

BigAdd(a, b) == BigNorm(BigAddC(a, b, 0))

RECURSIVE BigMulLimb(_, _, _)
BigMulLimb(a, m, carry) ==
    IF Len(a) = 0
    THEN (IF carry = 0 THEN <<>> ELSE <<carry>>)
    ELSE LET p == a[1] * m + carry
         IN  <<p % LimbBase>> \o BigMulLimb(Tail(a), m, p \div LimbBase)

RECURSIVE BigMul(_, _)
BigMul(a, b) ==
    IF Len(b) = 0 THEN <<>>
    ELSE BigAdd(BigNorm(BigMulLimb(a, b[1], 0)),
                BigNorm(<<0>> \o BigMul(a, Tail(b))))

RECURSIVE BigLt(_, _)
BigLt(a, b) ==
    IF Len(a) # Len(b) THEN Len(a) < Len(b)
    ELSE IF Len(a) = 0 THEN FALSE
    ELSE IF a[Len(a)] # b[Len(b)] THEN a[Len(a)] < b[Len(b)]
    ELSE BigLt(SubSeq(a, 1, Len(a) - 1), SubSeq(b, 1, Len(b) - 1))

BigLe(a, b) == a = b \/ BigLt(a, b)

\* one step of long division: the quotient so far and the remainder, then
\* the next limb down
BigDivStep(q, r, limb, d) ==
    <<BigNorm(<<(r * LimbBase + limb) \div d>> \o q), (r * LimbBase + limb) % d>>

BigDivPair(hi, limb, d) == BigDivStep(hi[1], hi[2], limb, d)

\* a = q * d + r for a divisor d below 2^15: <<q, r>>
RECURSIVE BigDivModSmall(_, _)
BigDivModSmall(a, d) ==
    IF Len(a) = 0 THEN <<(<<>>), 0>>
    ELSE BigDivPair(BigDivModSmall(Tail(a), d), a[1], d)

RECURSIVE BitLen(_)
BitLen(n) == IF n = 0 THEN 0 ELSE 1 + BitLen(n \div 2)

BigBitLen(a) == IF Len(a) = 0 THEN 0 ELSE (Len(a) - 1) * 15 + BitLen(a[Len(a)])

BigPow2(k) == [i \in 1..(k \div 15) |-> 0] \o <<2^(k % 15)>>

(***************************************************************************)
(* Number(bigint): the nearest IEEE-754 double, ties to even.  Doubles     *)
(* hold 53 significant bits; the result is kept as the integer it denotes. *)
(* Exact for arguments below 2^(53 + 14).                                  *)
(***************************************************************************)
DoubleMantissaBits == 53

\* the quotient q and remainder r of a division by d = 2^e, rounded to the
\* nearest multiple of d, ties to the even quotient
RoundToEven(q, r, d) ==
    IF r > d \div 2 \/ (r = d \div 2 /\ Len(q) > 0 /\ q[1] % 2 = 1)
    THEN BigMul(BigAdd(q, ToBig(1)), ToBig(d))
    ELSE BigMul(q, ToBig(d))

RoundPair(qr, d) == RoundToEven(qr[1], qr[2], d)

RoundToBits(a, d) == RoundPair(BigDivModSmall(a, d), d)

NumberOfBigInt(a) ==
    IF BigBitLen(a) <= DoubleMantissaBits THEN a
    ELSE RoundToBits(a, 2^(BigBitLen(a) - DoubleMantissaBits))

(***************************************************************************)
(* JavaScript values: [t |-> typeof, v |-> payload].  A string's payload   *)
(* is its characters; a number's payload is the characters of its          *)
(* Number.prototype.toString rendering ("0.1", "-1", "Infinity", "NaN").   *)
(***************************************************************************)
JsString(s) == [t |-> "string", v |-> s]
JsNumber(repr) == [t |-> "number", v |-> repr]
JsUndefined == [t |-> "undefined", v |-> <<>>]
JsObject == [t |-> "object", v |-> <<>>]
JsBoolean(b) ==
    [t |-> "boolean", v |-> IF b THEN <<"t","r","u","e">> ELSE <<"f","a","l","s","e">>]

Drop(s, n) == SubSeq(s, n + 1, Len(s))

RECURSIVE DigitRun(_)
DigitRun(s) == IF Len(s) > 0 /\ s[1] \in Digits THEN 1 + DigitRun(Tail(s)) ELSE 0

DigitSeq == <<"0","1","2","3","4","5","6","7","8","9">>
DigitVal(c) == (CHOOSE i \in 1..10 : DigitSeq[i] = c) - 1

\* the value of a run of decimal digits, saturating where the double it
\* is the exponent of is infinite or zero anyway
RECURSIVE DecToInt(_, _)
DecToInt(s, acc) ==
    IF Len(s) = 0 THEN acc
    ELSE IF acc > 99999 THEN acc
    ELSE DecToInt(Tail(s), acc * 10 + DigitVal(s[1]))

\* the value of a run of decimal digits written after the digits of acc,
\* taken four digits at a time
RECURSIVE DecToBig(_, _)
DecToBig(s, acc) ==
    IF Len(s) = 0 THEN acc
    ELSE IF Len(s) < 4
    THEN BigNorm(BigMulLimb(DecToBig(SubSeq(s, 1, Len(s) - 1), acc), 10,
                            DigitVal(s[Len(s)])))
    ELSE BigNorm(BigMulLimb(DecToBig(SubSeq(s, 1, Len(s) - 4), acc), 10000,
                            DecToInt(Drop(s, Len(s) - 4), 0)))

\* BigInt.prototype.toString of a value above zero; no digit for zero
RECURSIVE IntToDec(_)
IntToDec(n) == IF n < 10 THEN <<DigitSeq[n + 1]>> ELSE IntToDec(n \div 10) \o <<DigitSeq[(n % 10) + 1]>>

RECURSIVE Zeros(_)
Zeros(n) == IF n <= 0 THEN <<>> ELSE <<"0">> \o Zeros(n - 1)

\* four digits at a time, the leading group without its leading zeros
RECURSIVE BigToDec(_)
BigToDecStep(qr) ==
    IF Len(qr[1]) = 0 THEN IntToDec(qr[2])
    ELSE BigToDec(qr[1]) \o Zeros(4 - Len(IntToDec(qr[2]))) \o IntToDec(qr[2])
BigToDec(a) == IF Len(a) = 0 THEN <<>> ELSE BigToDecStep(BigDivModSmall(a, 10000))

RECURSIVE Pow10(_)
Pow10(k) == IF k = 0 THEN ToBig(1) ELSE BigNorm(BigMulLimb(Pow10(k - 1), 10, 0))

RECURSIVE TrimStart(_)
TrimStart(s) ==
    IF Len(s) > 0 /\ s[1] \in {" ", "\t", "\n", "\r"} THEN TrimStart(Tail(s)) ELSE s

\* the index of the first digit that is not 0, from index i on; 0 if none
RECURSIVE FirstNonZeroFrom(_, _)
FirstNonZeroFrom(s, i) ==
    IF i > Len(s) THEN 0
    ELSE IF s[i] # "0" THEN i
    ELSE FirstNonZeroFrom(s, i + 1)

FirstNonZero(s) == FirstNonZeroFrom(s, 1)

\* digit strings compared as decimal fractions 0.d1d2d3...: -1, 0, 1
RECURSIVE DigitsCmp(_, _)
DigitsCmp(a, b) ==
    IF Len(a) = 0 /\ Len(b) = 0 THEN 0
    ELSE LET x == IF Len(a) = 0 THEN 0 ELSE DigitVal(a[1])
             y == IF Len(b) = 0 THEN 0 ELSE DigitVal(b[1])
         IN  IF x < y THEN -1
             ELSE IF x > y THEN 1
             ELSE DigitsCmp(IF Len(a) = 0 THEN a ELSE Tail(a),
                            IF Len(b) = 0 THEN b ELSE Tail(b))

\* decimal strings at or above 1.797693134862315807937e308 round to Infinity,
\* those at or below 2.4703282292062327208e-324 round to zero
OverflowDigits ==
    <<"1","7","9","7","6","9","3","1","3","4","8","6","2","3","1","5","8","0","7","9","3","7">>
UnderflowDigits ==
    <<"2","4","7","0","3","2","8","2","2","9","2","0","6","2","3","2","7","2","0","8">>
InfinityLiteral == <<"I","n","f","i","n","i","t","y">>

(***************************************************************************)
(* parseFloat: the longest prefix that is a StrDecimalLiteral, as the      *)
(* class of the double it denotes: "nan", "zero", "pos", "neg", "posinf",  *)
(* "neginf".                                                               *)
(***************************************************************************)
\* a finite non-zero decimal: its significant digits and the power of ten
\* of the first of them
ClassifyMagnitude(neg, sig, mag) ==
    IF mag > 308 \/ (mag = 308 /\ DigitsCmp(sig, OverflowDigits) >= 0)
    THEN (IF neg THEN "neginf" ELSE "posinf")
    ELSE IF mag < -324 \/ (mag = -324 /\ DigitsCmp(sig, UnderflowDigits) <= 0)
    THEN "zero"
    ELSE IF neg THEN "neg" ELSE "pos"

ClassifyDigits(neg, mant, lead, il, exp) ==
    IF lead = 0 THEN "zero"
    ELSE ClassifyMagnitude(neg, Drop(mant, lead - 1), (il - lead) + exp)

ClassifyDecimal(neg, int, frac, exp) ==
    IF Len(int) + Len(frac) = 0 THEN "nan"
    ELSE ClassifyDigits(neg, int \o frac, FirstNonZero(int \o frac), Len(int), exp)

\* the digits of an ExponentPart after its sign; no digit, no exponent
ExponentDigits(eneg, ed, el) ==
    IF el = 0 THEN 0
    ELSE (IF eneg THEN -1 ELSE 1) * DecToInt(SubSeq(ed, 1, el), 0)

ExponentSigned(c) ==
    IF Len(c) > 0 /\ c[1] \in {"+", "-"}
    THEN ExponentDigits(c[1] = "-", Tail(c), DigitRun(Tail(c)))
    ELSE ExponentDigits(FALSE, c, DigitRun(c))

\* the value of the ExponentPart the rest of the string starts with, if any
ExponentOf(b) ==
    IF Len(b) > 0 /\ b[1] \in {"e", "E"} THEN ExponentSigned(Tail(b)) ELSE 0

FractionRun(neg, int, a, fl) ==
    ClassifyDecimal(neg, int, SubSeq(a, 2, 1 + fl),
                    IF Len(int) + fl = 0 THEN 0 ELSE ExponentOf(Drop(a, 1 + fl)))

ParseFraction(neg, int, a) ==
    IF Len(a) > 0 /\ a[1] = "."
    THEN FractionRun(neg, int, a, DigitRun(Tail(a)))
    ELSE ClassifyDecimal(neg, int, <<>>, IF Len(int) = 0 THEN 0 ELSE ExponentOf(a))

ParseMantissa(neg, u, il) == ParseFraction(neg, SubSeq(u, 1, il), Drop(u, il))

ParseUnsigned(neg, u) ==
    IF StartsWith(u, InfinityLiteral) THEN (IF neg THEN "neginf" ELSE "posinf")
    ELSE ParseMantissa(neg, u, DigitRun(u))

ParseSigned(t) ==
    IF Len(t) > 0 /\ t[1] \in {"+", "-"}
    THEN ParseUnsigned(t[1] = "-", Tail(t))
    ELSE ParseUnsigned(FALSE, t)

ParseFloat(s) == ParseSigned(TrimStart(s))

\* the class of a number value
NumClass(x) == ParseFloat(x.v)

\* ToBoolean
Truthy(x) ==
    CASE x.t = "undefined" -> FALSE
      [] x.t = "null" -> FALSE
      [] x.t = "boolean" -> x.v = <<"t","r","u","e">>
      [] x.t = "string" -> Len(x.v) > 0
      [] x.t = "number" -> NumClass(x) \notin {"nan", "zero"}
      [] OTHER -> TRUE

(***************************************************************************)
(* Addresses                                                               *)
(***************************************************************************)
AddrChecksummed ==
    <<"0","x","d","8","d","A","6","B","F","2","6","9","6","4","a","F","9","D","7","e","E","d",
      "9","e","0","3","E","5","3","4","1","5","D","3","7","a","A","9","6","0","4","5">>
AddrLowerCase ==
    <<"0","x","0","0","0","0","0","0","0","0","0","0","0","0","0","0","0","0","0","0","0","0",
      "0","0","0","0","0","0","0","0","0","0","0","0","0","0","0","0","d","e","a","d">>
AddrLowerCaseSum ==
    <<"0","x","0","0","0","0","0","0","0","0","0","0","0","0","0","0","0","0","0","0","0","0",
      "0","0","0","0","0","0","0","0","0","0","0","0","0","0","0","0","d","E","a","D">>
AddrBadChecksum ==
    <<"0","x","D","8","d","A","6","B","F","2","6","9","6","4","a","F","9","D","7","e","E","d",
      "9","e","0","3","E","5","3","4","1","5","D","3","7","a","A","9","6","0","4","5">>
AddrNoPrefix ==
    <<"d","8","d","A","6","B","F","2","6","9","6","4","a","F","9","D","7","e","E","d","9","e",
      "0","3","E","5","3","4","1","5","D","3","7","a","A","9","6","0","4","5">>
AddrShort == <<"0","x","1","2","3">>
AddrNonHex ==
    <<"0","x","G","G","G","G","G","G","G","G","G","G","G","G","G","G","G","G","G","G","G","G",
      "G","G","G","G","G","G","G","G","G","G","G","G","G","G","G","G","G","G","G","G">>
AddrWord == <<"i","n","v","a","l","i","d","-","a","d","d","r","e","s","s">>
AddrIcap ==
    <<"X","E","6","5","G","B","6","L","D","N","X","Y","O","F","T","X","0","N","S","V","3","F",
      "U","W","K","O","W","I","X","A","M","J","K","3","6">>
AddrEmpty == <<>>

AllIn(s, chars) == \A i \in 1..Len(s) : s[i] \in chars

\* /^0x[a-fA-F0-9]{40}$/
MatchesAddressRegex(s) ==
    Len(s) = 42 /\ s[1] = "0" /\ s[2] = "x" /\ AllIn(Drop(s, 2), HexDigits)

\* ethers getAddress: /^(0x)?[0-9a-fA-F]{40}$/
MatchesOptionalPrefixRegex(s) ==
    MatchesAddressRegex(s) \/ (Len(s) = 40 /\ AllIn(s, HexDigits))

\* ethers getAddress: /([A-F].*[a-f])|([a-f].*[A-F])/
IsMixedCase(s) ==
    \E i, j \in 1..Len(s) :
        /\ i < j
        /\ \/ (s[i] \in UpperHex /\ s[j] \in LowerHex)
           \/ (s[i] \in LowerHex /\ s[j] \in UpperHex)

\* ethers getChecksumAddress: the EIP-55 casing of a 0x-prefixed address.
\* The keccak-256 digest is tabulated for the addresses the model draws.
GetChecksumAddress(s) ==
    LET l == ToLowerCase(s)
    IN  IF l = ToLowerCase(AddrChecksummed) THEN AddrChecksummed
        ELSE IF l = AddrLowerCase THEN AddrLowerCaseSum
        ELSE l

UpperLetters ==
    <<"A","B","C","D","E","F","G","H","I","J","K","L","M",
      "N","O","P","Q","R","S","T","U","V","W","X","Y","Z">>
LowerLetters ==
    <<"a","b","c","d","e","f","g","h","i","j","k","l","m",
      "n","o","p","q","r","s","t","u","v","w","x","y","z">>
Letters == {UpperLetters[i] : i \in 1..26} \cup {LowerLetters[i] : i \in 1..26}

\* ethers ibanLookup after toUpperCase: digits 0..9, letters 10..35
IbanVal(c) ==
    IF c \in Digits THEN DigitVal(c)
    ELSE 9 + (CHOOSE i \in 1..26 : UpperLetters[i] = c \/ LowerLetters[i] = c)

\* the expanded decimal string modulo 97
RECURSIVE IbanMod(_, _)
IbanMod(s, acc) ==
    IF Len(s) = 0 THEN acc
    ELSE LET x == IbanVal(s[1])
         IN  IbanMod(Tail(s), IF x < 10 THEN (acc * 10 + x) % 97 ELSE (acc * 100 + x) % 97)

\* ethers ibanChecksum: the two check digits, as a number
IbanChecksum(s) == 98 - IbanMod(Drop(s, 4) \o SubSeq(s, 1, 2) \o <<"0", "0">>, 0)

\* ethers getAddress: /^XE[0-9]{2}[0-9A-Za-z]{30,31}$/
MatchesIcapRegex(s) ==
    /\ Len(s) \in {34, 35}
    /\ s[1] = "X" /\ s[2] = "E" /\ s[3] \in Digits /\ s[4] \in Digits
    /\ AllIn(Drop(s, 4), Digits \cup Letters)

\* ethers isAddress: getAddress does not throw
EthersIsAddress(s) ==
    IF MatchesOptionalPrefixRegex(s)
    THEN LET a == IF StartsWith(s, <<"0", "x">>) THEN s ELSE <<"0", "x">> \o s
         IN  ~IsMixedCase(a) \/ GetChecksumAddress(a) = a
    ELSE IF MatchesIcapRegex(s)
    THEN DigitVal(s[3]) * 10 + DigitVal(s[4]) = IbanChecksum(s)
    ELSE FALSE

isValidAddress(address) ==
    IF address.t # "string" THEN FALSE ELSE EthersIsAddress(address.v)

isPositiveNumber(value) ==
    IF value.t # "string" /\ value.t # "number" THEN FALSE
    ELSE ParseFloat(value.v) = "pos"

(***************************************************************************)
(* Outcomes of a call: a returned value or a thrown error.  An error is    *)
(* [message, code, status]; status 0 stands for an error that carries no   *)
(* HTTP response.                                                          *)
(***************************************************************************)
NoError == [message |-> <<>>, code |-> "", status |-> 0]
Error(message) == [message |-> message, code |-> "", status |-> 0]
Returned(x) == [ok |-> TRUE, val |-> x, err |-> NoError]
Thrown(e) == [ok |-> FALSE, val |-> JsUndefined, err |-> e]

(***************************************************************************)
(* Network resolver (utils.js)                                             *)
(***************************************************************************)
UrlBase ==
    <<"h","t","t","p","s",":","/","/","m","a","i","n","n","e","t",".","b","a","s","e",".","o",
      "r","g">>
UrlBaseSepolia ==
    <<"h","t","t","p","s",":","/","/","s","e","p","o","l","i","a",".","b","a","s","e",".","o",
      "r","g">>
NetBase == <<"b","a","s","e">>
NetBaseSepolia == <<"b","a","s","e","-","s","e","p","o","l","i","a">>
MsgUnsupportedHead ==
    <<"U","n","s","u","p","p","o","r","t","e","d"," ","n","e","t","w","o","r","k",":"," ">>
MsgUnsupportedMid ==
    <<"."," ","S","u","p","p","o","r","t","e","d"," ","n","e","t","w","o","r","k","s",":"," ">>
NetUnknown == <<"u","n","k","n","o","w","n">>
NetInvalid == <<"i","n","v","a","l","i","d","-","n","e","t","w","o","r","k">>
NetUpper == <<"B","a","s","e">>
NetToString == <<"t","o","S","t","r","i","n","g">>
NetConstructor == <<"c","o","n","s","t","r","u","c","t","o","r">>
NetProto == <<"_","_","p","r","o","t","o","_","_">>
NetValueOf == <<"v","a","l","u","e","O","f">>
NetHasOwnProperty == <<"h","a","s","O","w","n","P","r","o","p","e","r","t","y">>

\* Object.keys(NETWORK_CONFIG), in insertion order
NetworkConfigKeys == <<NetBase, NetBaseSepolia>>

\* the names a plain object inherits from Object.prototype
ObjectPrototypeKeys ==
    {NetToString, NetConstructor, NetProto, NetValueOf, NetHasOwnProperty}

\* NETWORK_CONFIG[network]: an own entry, an inherited member, or undefined
NETWORK_CONFIG(network) ==
    IF network = NetBase THEN [t |-> "object", v |-> UrlBase]
    ELSE IF network = NetBaseSepolia THEN [t |-> "object", v |-> UrlBaseSepolia]
    ELSE IF network \in ObjectPrototypeKeys THEN [t |-> "function", v |-> <<>>]
    ELSE JsUndefined

\* config.rpcUrl
RpcUrlOf(config) == IF config.t = "object" THEN JsString(config.v) ELSE JsUndefined

UnsupportedNetworkMessage(network) ==
    MsgUnsupportedHead \o network \o MsgUnsupportedMid
        \o Join(NetworkConfigKeys, <<",", " ">>)

getRpcUrl(network) ==
    LET config == NETWORK_CONFIG(network)
    IN  IF ~Truthy(config) THEN Thrown(Error(UnsupportedNetworkMessage(network)))
        ELSE Returned(RpcUrlOf(config))

(***************************************************************************)
(* Formatters (utils.js)                                                   *)
(***************************************************************************)
\* a * 2^n, a div 2^n and a mod 2^n
BigShiftLeft(a, n) == BigMul(a, BigPow2(n))

RECURSIVE BigShiftRight(_, _)
BigShiftRight(a, n) ==
    IF Len(a) = 0 THEN a
    ELSE IF n >= 15 THEN BigShiftRight(Tail(a), n - 15)
    ELSE BigDivModSmall(a, 2^n)[1]

RECURSIVE BigLowBits(_, _)
BigLowBits(a, n) ==
    IF Len(a) = 0 \/ n = 0 THEN <<>>
    ELSE IF n >= 15 THEN BigNorm(<<a[1]>> \o BigLowBits(Tail(a), n - 15))
    ELSE BigNorm(<<a[1] % 2^n>>)

\* a div 10^k, and whether anything was cut off: <<quotient, inexact>>
\* four powers of ten at a time
RECURSIVE DivPow10(_, _, _)
DivPow10Step(qr, k, inexact) == DivPow10(qr[1], k, inexact \/ qr[2] # 0)
DivPow10(a, k, inexact) ==
    IF k = 0 \/ Len(a) = 0 THEN <<a, inexact>>
    ELSE IF k < 4 THEN DivPow10Step(BigDivModSmall(a, 10^k), 0, inexact)
    ELSE DivPow10Step(BigDivModSmall(a, 10000), k - 4, inexact)

\* A double above or equal to zero is [m, e], the number m * 2^e, with m
\* of at most 53 bits.
Double(m, e) == [m |-> m, e |-> e]

\* m or m + 1, by the bits r cut off below m: nearest, ties to even
RoundHalfEven(m, r, half, inexact, e) ==
    IF BigLt(half, r) \/ (r = half /\ (inexact \/ (Len(m) > 0 /\ m[1] % 2 = 1)))
    THEN Double(BigAdd(m, ToBig(1)), e)
    ELSE Double(m, e)

\* q * 2^e0 (a little more, when inexact) cut to 53 bits by dropping t bits
RoundMantissa(q, t, inexact, e0) ==
    IF t <= 0 THEN Double(q, e0)
    ELSE RoundHalfEven(BigShiftRight(q, t), BigLowBits(q, t), BigPow2(t - 1), inexact, e0 + t)

NearestQuotient(qs, e0) ==
    RoundMantissa(qs[1], BigBitLen(qs[1]) - DoubleMantissaBits, qs[2], e0)

\* the quotient is computed with at least two bits more than a double holds
NearestShifted(n, k, s) ==
    IF s > 0 THEN NearestQuotient(DivPow10(BigShiftLeft(n, s), k, FALSE), -s)
    ELSE NearestQuotient(DivPow10(n, k, FALSE), 0)

\* the double nearest to n / 10^k
NearestDouble(n, k) ==
    IF Len(n) = 0 THEN Double(BigZero, 0)
    ELSE NearestShifted(n, k, DoubleMantissaBits + 2 + BigBitLen(Pow10(k)) - BigBitLen(n))

\* x >= y for two doubles
DoubleGe(x, y) ==
    IF x.e >= y.e THEN BigLe(y.m, BigShiftLeft(x.m, x.e - y.e))
    ELSE BigLe(BigShiftLeft(y.m, y.e - x.e), x.m)

\* parseFloat of the text ethers formats a quantity as: digits, a point, digits
PointIndex(s) == CHOOSE i \in 1..Len(s) : s[i] = "."
ParseFixedText(s) ==
    NearestDouble(DecToBig(SubSeq(s, 1, PointIndex(s) - 1) \o Drop(s, PointIndex(s)), BigZero),
                  Len(s) - PointIndex(s))

\* Number.prototype.toFixed(d) of a double below 10^21: the integer n nearest
\* to x * 10^d, the larger of two equally near, written with d digits after
\* the point
FixedInteger(x, d) ==
    IF x.e >= 0 THEN BigMul(BigShiftLeft(x.m, x.e), Pow10(d))
    ELSE BigShiftRight(BigAdd(BigMulLimb(BigMul(x.m, Pow10(d)), 2, 0), BigPow2(-x.e)),
                       1 - x.e)

FixedDigits(digits, d) ==
    IF d = 0 THEN digits
    ELSE SubSeq(digits, 1, Len(digits) - d) \o <<".">> \o Drop(digits, Len(digits) - d)

PadFixed(digits, d) == FixedDigits(Zeros(d + 1 - Len(digits)) \o digits, d)

toFixed(x, d) == PadFixed(BigToDec(FixedInteger(x, d)), d)

\* ethers formatUnits: the quantity with the point `decimals` digits from
\* the right, at least one digit on each side, no other trailing zero
FractionText(frac) ==
    IF AllIn(frac, {"0"}) THEN <<"0">>
    ELSE SubSeq(frac, 1, CHOOSE i \in 1..Len(frac) :
                            frac[i] # "0" /\ \A j \in (i + 1)..Len(frac) : frac[j] = "0")

UnitsText(digits, decimals) ==
    SubSeq(digits, 1, Len(digits) - decimals) \o <<".">>
        \o FractionText(Drop(digits, Len(digits) - decimals))

PadUnits(digits, decimals) == UnitsText(Zeros(decimals + 1 - Len(digits)) \o digits, decimals)

formatUnits(value, decimals) == PadUnits(BigToDec(value), decimals)

\* /\.?0+$/ matches at index i: an optional point, then zeros up to the end
TrailingZerosAt(s, i) ==
    \/ /\ s[i] = "." /\ i < Len(s)
       /\ \A j \in (i + 1)..Len(s) : s[j] = "0"
    \/ \A j \in i..Len(s) : s[j] = "0"

\* String.prototype.replace(/\.?0+$/, ''): the leftmost match is removed
ReplaceTrailingZeros(s) ==
    IF \E i \in 1..Len(s) : TrailingZerosAt(s, i)
    THEN SubSeq(s, 1, (CHOOSE i \in 1..Len(s) :
                         /\ TrailingZerosAt(s, i)
                         /\ \A j \in 1..(i - 1) : ~TrailingZerosAt(s, j)) - 1)
    ELSE s

trimDecimals(decimalStr) ==
    IF decimalStr.t # "string" THEN decimalStr
    ELSE JsString(ReplaceTrailingZeros(decimalStr.v))

EtherDecimals == 18

MsgInvalidGwei ==
    <<"I","n","v","a","l","i","d"," ","W","e","i"," ","a","m","o","u","n","t",
      " ","f","o","r"," ","G","w","e","i"," ","c","o","n","v","e","r","s","i",
      "o","n">>
MsgInvalidEth ==
    <<"I","n","v","a","l","i","d"," ","W","e","i"," ","a","m","o","u","n","t",
      " ","f","o","r"," ","E","T","H"," ","c","o","n","v","e","r","s","i","o",
      "n">>

JsBigInt(a) == [t |-> "bigint", v |-> a]

\* BigInt.prototype.toString
BigIntToString(a) == IF Len(a) = 0 THEN <<"0">> ELSE BigToDec(a)

\* ethers getBigInt of a bigint or of a string of decimal digits; it throws
\* for text that is no number
IsBigNumberish(x) ==
    \/ x.t = "bigint"
    \/ x.t = "string" /\ Len(x.v) > 0 /\ AllIn(x.v, Digits)

GetBigInt(x) == IF x.t = "bigint" THEN x.v ELSE DecToBig(x.v, BigZero)

GweiDecimals == 9

DoubleOfInt(n) == Double(ToBig(n), 0)

\* the literal 0.001
DoubleMilli == NearestDouble(ToBig(1), 3)

\* num.toFixed(d).replace(/\.?0+$/, '')
TrimFixed(num, d) == ReplaceTrailingZeros(toFixed(num, d))

GweiText(num) ==
    IF DoubleGe(num, DoubleOfInt(1000)) THEN toFixed(num, 0)
    ELSE IF DoubleGe(num, DoubleOfInt(1)) THEN TrimFixed(num, 3)
    ELSE TrimFixed(num, 6)

formatGweiFromWei(weiAmount) ==
    IF IsBigNumberish(weiAmount)
    THEN Returned(JsString(GweiText(ParseFixedText(
             formatUnits(GetBigInt(weiAmount), GweiDecimals)))))
    ELSE Thrown(Error(MsgInvalidGwei))

EthText(num) ==
    IF DoubleGe(num, DoubleOfInt(1)) THEN TrimFixed(num, 6)
    ELSE IF DoubleGe(num, DoubleMilli) THEN TrimFixed(num, 6)
    ELSE TrimFixed(num, 9)

formatEthFromWei(weiAmount) ==
    IF IsBigNumberish(weiAmount)
    THEN Returned(JsString(EthText(ParseFixedText(
             formatUnits(GetBigInt(weiAmount), EtherDecimals)))))
    ELSE Thrown(Error(MsgInvalidEth))

(***************************************************************************)
(* Fee estimator (estimator.js)                                            *)
(***************************************************************************)
MsgInvalidRecipient ==
    <<"I","n","v","a","l","i","d"," ","r","e","c","i","p","i","e","n","t"," ","a","d","d","r",
      "e","s","s">>
MsgInvalidEthValue == <<"I","n","v","a","l","i","d"," ","E","T","H"," ","v","a","l","u","e">>
MsgNegativeValue ==
    <<"E","T","H"," ","v","a","l","u","e"," ","c","a","n","n","o","t"," ","b","e"," ","n","e",
      "g","a","t","i","v","e">>
MsgNoGasPrice ==
    <<"U","n","a","b","l","e"," ","t","o"," ","f","e","t","c","h"," ","g","a","s"," ","p","r",
      "i","c","e"," ","f","r","o","m"," ","n","e","t","w","o","r","k">>
MsgInsufficientFunds ==
    <<"I","n","s","u","f","f","i","c","i","e","n","t"," ","f","u","n","d","s"," ","f","o","r",
      " ","g","a","s"," ","e","s","t","i","m","a","t","i","o","n">>
MsgNetworkFailed ==
    <<"N","e","t","w","o","r","k"," ","c","o","n","n","e","c","t","i","o","n"," ","f","a","i",
      "l","e","d","."," ","P","l","e","a","s","e"," ","c","h","e","c","k"," ","y","o","u","r",
      " ","i","n","t","e","r","n","e","t"," ","c","o","n","n","e","c","t","i","o","n",".">>
MsgBaseUnreachable ==
    <<"U","n","a","b","l","e"," ","t","o"," ","c","o","n","n","e","c","t"," ","t","o"," ","B",
      "a","s","e"," ","n","e","t","w","o","r","k","."," ","P","l","e","a","s","e"," ","t","r",
      "y"," ","a","g","a","i","n"," ","l","a","t","e","r",".">>
RpcMsgInsufficientFunds ==
    <<"i","n","s","u","f","f","i","c","i","e","n","t"," ","f","u","n","d","s"," ","f","o","r",
      " ","i","n","t","r","i","n","s","i","c"," ","t","r","a","n","s","a","c","t","i","o","n",
      " ","c","o","s","t">>
RpcMsgInvalidAddress == <<"i","n","v","a","l","i","d"," ","a","d","d","r","e","s","s">>
RpcMsgDetectNetwork ==
    <<"f","a","i","l","e","d"," ","t","o"," ","d","e","t","e","c","t"," ","n","e","t","w","o",
      "r","k">>
RpcMsgConnection ==
    <<"g","e","t","a","d","d","r","i","n","f","o"," ","E","N","O","T","F","O","U","N","D"," ",
      "m","a","i","n","n","e","t",".","b","a","s","e",".","o","r","g">>
RpcMsgRevert == <<"m","i","s","s","i","n","g"," ","r","e","v","e","r","t"," ","d","a","t","a">>
RpcMsgTimeout == <<"r","e","q","u","e","s","t"," ","t","i","m","e","o","u","t">>
NeedleInsufficientFunds ==
    <<"i","n","s","u","f","f","i","c","i","e","n","t"," ","f","u","n","d","s">>
NeedleInvalidAddress == <<"i","n","v","a","l","i","d"," ","a","d","d","r","e","s","s">>
NeedleNetwork == <<"n","e","t","w","o","r","k">>

\* an optional bigint: null, or a value
None == [some |-> FALSE, v |-> <<>>]
Some(x) == [some |-> TRUE, v |-> x]

\* ToBoolean of an optional bigint: null and 0n are falsy
BigTruthy(x) == x.some /\ x.v # BigZero

\* a || b
OrElse(a, b) == IF BigTruthy(a) THEN a ELSE b

\* ethers parseEther: /^(-?)([0-9]*)\.?([0-9]*)$/ with a digit on one side of
\* the point and no non-zero digit past the 18th decimal; the value in wei
\* as [neg, mag]
\* the decimals padded with zeros, or cut, to 18 digits
PadDecimals(decimal) ==
    IF Len(decimal) >= EtherDecimals THEN SubSeq(decimal, 1, EtherDecimals)
    ELSE decimal \o [i \in 1..(EtherDecimals - Len(decimal)) |-> "0"]

ParseEtherDigits(neg, whole, decimal) ==
    IF Len(whole) + Len(decimal) > 0 /\ AllIn(Drop(decimal, EtherDecimals), {"0"})
    THEN Returned([neg |-> neg,
                   mag |-> DecToBig(whole \o PadDecimals(decimal), BigZero)])
    ELSE Thrown([message |-> <<>>, code |-> "INVALID_ARGUMENT", status |-> 0])

ParseEtherDecimal(neg, whole, d, dl) ==
    IF dl = Len(d) THEN ParseEtherDigits(neg, whole, d)
    ELSE Thrown([message |-> <<>>, code |-> "INVALID_ARGUMENT", status |-> 0])

ParseEtherPoint(neg, whole, a) ==
    IF Len(a) > 0 /\ a[1] = "."
    THEN ParseEtherDecimal(neg, whole, Tail(a), DigitRun(Tail(a)))
    ELSE ParseEtherDecimal(neg, whole, a, DigitRun(a))

ParseEtherWhole(neg, u, wl) == ParseEtherPoint(neg, SubSeq(u, 1, wl), Drop(u, wl))

ParseEtherUnsigned(neg, u) == ParseEtherWhole(neg, u, DigitRun(u))

parseEther(s) ==
    IF Len(s) > 0 /\ s[1] = "-" THEN ParseEtherUnsigned(TRUE, Tail(s))
    ELSE ParseEtherUnsigned(FALSE, s)

\* weiValue < 0n
BigIntNegative(x) == x.neg /\ x.mag # BigZero

\* valueEth.toString(): undefined and null have no toString
ToStringThrows(x) == x.t \in {"undefined", "null"}

\* the catch block of estimateEthTransfer
RemapEstimatorError(e) ==
    IF Includes(e.message, NeedleInsufficientFunds) THEN Error(MsgInsufficientFunds)
    ELSE IF Includes(e.message, NeedleInvalidAddress) THEN Error(MsgInvalidRecipient)
    ELSE IF Includes(e.message, NeedleNetwork) THEN Error(MsgNetworkFailed)
    ELSE IF e.code = "NETWORK_ERROR" THEN Error(MsgBaseUnreachable)
    ELSE e

\* the inner try of estimateEthTransfer and the sign check after it
CheckWei(wei) ==
    IF ~wei.ok THEN Thrown(Error(MsgInvalidEthValue))
    ELSE IF BigIntNegative(wei.val) THEN Thrown(Error(MsgNegativeValue))
    ELSE Returned(wei.val)

\* ValidateTransfer without the check "weiValue < 0n"
ValidateTransferUnsigned(to, valueEth) ==
    IF ~Truthy(to) \/ to.t # "string" THEN Thrown(Error(MsgInvalidRecipient))
    ELSE IF ~MatchesAddressRegex(to.v) THEN Thrown(Error(MsgInvalidRecipient))
    ELSE IF ToStringThrows(valueEth) THEN Thrown(Error(MsgInvalidEthValue))
    ELSE IF ~parseEther(valueEth.v).ok THEN Thrown(Error(MsgInvalidEthValue))
    ELSE Returned(parseEther(valueEth.v).val)

\* estimateEthTransfer up to its first await: the error thrown, or the
\* transfer value in wei
ValidateTransfer(to, valueEth) ==
    IF ~Truthy(to) \/ to.t # "string" THEN Thrown(Error(MsgInvalidRecipient))
    ELSE IF ~MatchesAddressRegex(to.v) THEN Thrown(Error(MsgInvalidRecipient))
    ELSE IF ToStringThrows(valueEth) THEN Thrown(Error(MsgInvalidEthValue))
    ELSE CheckWei(parseEther(valueEth.v))

\* ethers getFeeData's default priority fee, 1 gwei
DefaultPriorityFee == ToBig(10^9)

\* ethers provider.getFeeData() from the node's answers: the latest block's
\* baseFeePerGas, eth_gasPrice and eth_maxPriorityFeePerGas (null when the
\* call fails or the field is missing)
GetFeeData(baseFee, gasPrice, priorityFee) ==
    LET prio == IF priorityFee.some THEN priorityFee.v ELSE DefaultPriorityFee
    IN  IF BigTruthy(baseFee)
        THEN [gasPrice |-> gasPrice,
              maxFeePerGas |-> Some(BigAdd(BigMul(baseFee.v, ToBig(2)), prio)),
              maxPriorityFeePerGas |-> Some(prio)]
        ELSE [gasPrice |-> gasPrice, maxFeePerGas |-> None, maxPriorityFeePerGas |-> None]

NoFeeData == [gasPrice |-> None, maxFeePerGas |-> None, maxPriorityFeePerGas |-> None]

\* SelectGasPrice with the operands exchanged: feeData.gasPrice || feeData.maxFeePerGas
SelectLegacyFirst(feeData) == OrElse(feeData.gasPrice, feeData.maxFeePerGas)

\* feeData.maxFeePerGas || feeData.gasPrice
SelectGasPrice(feeData) == OrElse(feeData.maxFeePerGas, feeData.gasPrice)

NoResult ==
    [gasUnits |-> BigZero, gasPriceWei |-> BigZero, totalWei |-> BigZero,
     gasText |-> <<>>, totalText |-> <<>>]

GweiLabel == <<" ","G","w","e","i"," ","(">>
WeiLabel == <<" ","w","e","i",")">>

\* estimateEthTransfer after both awaits: the result record
BuildEstimation(gasLimit, gasPrice) ==
    [gasUnits |-> NumberOfBigInt(gasLimit),
     gasPriceWei |-> gasPrice,
     totalWei |-> BigMul(gasLimit, gasPrice),
     gasText |-> formatGweiFromWei(JsBigInt(gasPrice)).val.v \o GweiLabel
                     \o BigIntToString(gasPrice) \o WeiLabel,
     totalText |-> formatEthFromWei(JsBigInt(BigMul(gasLimit, gasPrice))).val.v]

\* the outcome of "await provider.estimateGas(transaction)" and what follows
AfterEstimateGas(feeData, gas) ==
    IF ~gas.ok THEN Thrown(RemapEstimatorError(gas.err))
    ELSE LET gasPrice == SelectGasPrice(feeData)
         IN  IF ~BigTruthy(gasPrice) THEN Thrown(RemapEstimatorError(Error(MsgNoGasPrice)))
             ELSE Returned(BuildEstimation(gas.val, gasPrice.v))

\* the errors a JSON-RPC call of the provider rejects with
RpcErrors ==
    { [message |-> RpcMsgInsufficientFunds, code |-> "INSUFFICIENT_FUNDS", status |-> 0],
      [message |-> RpcMsgInvalidAddress, code |-> "INVALID_ARGUMENT", status |-> 0],
      [message |-> RpcMsgDetectNetwork, code |-> "NETWORK_ERROR", status |-> 0],
      [message |-> RpcMsgConnection, code |-> "NETWORK_ERROR", status |-> 0],
      [message |-> RpcMsgRevert, code |-> "CALL_EXCEPTION", status |-> 0],
      [message |-> RpcMsgTimeout, code |-> "TIMEOUT", status |-> 0] }

(***************************************************************************)
(* Price fetcher (price.js)                                                *)
(***************************************************************************)
MsgInvalidFormat ==
    <<"I","n","v","a","l","i","d"," ","r","e","s","p","o","n","s","e"," ","f","o","r","m","a",
      "t"," ","f","r","o","m"," ","p","r","i","c","e"," ","A","P","I">>
MsgInvalidPrice ==
    <<"I","n","v","a","l","i","d"," ","E","T","H"," ","p","r","i","c","e"," ","r","e","c","e",
      "i","v","e","d"," ","f","r","o","m"," ","A","P","I">>
MsgPriceTimeout ==
    <<"P","r","i","c","e"," ","A","P","I"," ","r","e","q","u","e","s","t"," ","t","i","m","e",
      "d"," ","o","u","t","."," ","P","l","e","a","s","e"," ","t","r","y"," ","a","g","a","i",
      "n",".">>
MsgPriceConnect ==
    <<"U","n","a","b","l","e"," ","t","o"," ","c","o","n","n","e","c","t"," ","t","o"," ","p",
      "r","i","c","e"," ","A","P","I","."," ","P","l","e","a","s","e"," ","c","h","e","c","k",
      " ","y","o","u","r"," ","i","n","t","e","r","n","e","t"," ","c","o","n","n","e","c","t",
      "i","o","n",".">>
MsgPriceRateLimit ==
    <<"P","r","i","c","e"," ","A","P","I"," ","r","a","t","e"," ","l","i","m","i","t"," ","e",
      "x","c","e","e","d","e","d","."," ","P","l","e","a","s","e"," ","t","r","y"," ","a","g",
      "a","i","n"," ","l","a","t","e","r",".">>
MsgPriceServer ==
    <<"P","r","i","c","e"," ","A","P","I"," ","s","e","r","v","e","r"," ","e","r","r","o","r",
      "."," ","P","l","e","a","s","e"," ","t","r","y"," ","a","g","a","i","n"," ","l","a","t",
      "e","r",".">>
MsgPriceStatusHead == <<"P","r","i","c","e"," ","A","P","I"," ","e","r","r","o","r"," ","(">>
MsgPriceStatusTail ==
    <<")","."," ","P","l","e","a","s","e"," ","t","r","y"," ","a","g","a","i","n"," ","l","a",
      "t","e","r",".">>
MsgPriceGeneric ==
    <<"F","a","i","l","e","d"," ","t","o"," ","f","e","t","c","h"," ","E","T","H"," ","p","r",
      "i","c","e","."," ","P","l","e","a","s","e"," ","t","r","y"," ","a","g","a","i","n"," ",
      "l","a","t","e","r",".">>
AxiosMsgTimeout ==
    <<"t","i","m","e","o","u","t"," ","o","f"," ","5","0","0","0","m","s"," ","e","x","c","e",
      "e","d","e","d">>
AxiosMsgNotFound ==
    <<"g","e","t","a","d","d","r","i","n","f","o"," ","E","N","O","T","F","O","U","N","D"," ",
      "a","p","i",".","c","o","i","n","g","e","c","k","o",".","c","o","m">>
AxiosMsgRefused ==
    <<"c","o","n","n","e","c","t"," ","E","C","O","N","N","R","E","F","U","S","E","D"," ","1",
      "2","7",".","0",".","0",".","1",":","4","4","3">>
AxiosMsgStatusHead ==
    <<"R","e","q","u","e","s","t"," ","f","a","i","l","e","d"," ","w","i","t","h"," ","s","t",
      "a","t","u","s"," ","c","o","d","e"," ">>
AxiosMsgReset == <<"s","o","c","k","e","t"," ","h","a","n","g"," ","u","p">>
AxiosMsgTimedOut ==
    <<"c","o","n","n","e","c","t"," ","E","T","I","M","E","D","O","U","T"," ","1","0","4",".",
      "1","8",".","0",".","1",":","4","4","3">>
NeedleInvalid == <<"I","n","v","a","l","i","d">>

\* the body of a 2xx response as the checks of getEthUsdPrice see it:
\* response.data and response.data.ethereum as booleans, response.data.ethereum.usd
NoBody == [data |-> FALSE, ethereum |-> FALSE, usd |-> JsUndefined]
HttpResponse(body) == [ok |-> TRUE, body |-> body, err |-> NoError]
HttpError(e) == [ok |-> FALSE, body |-> NoBody, err |-> e]

\* RemapPriceError with "throw error" as its last branch
RemapPriceErrorRethrow(e) ==
    IF e.code = "ECONNABORTED" THEN Error(MsgPriceTimeout)
    ELSE IF e.code = "ENOTFOUND" \/ e.code = "ECONNREFUSED" THEN Error(MsgPriceConnect)
    ELSE IF e.status # 0
    THEN (IF e.status = 429 THEN Error(MsgPriceRateLimit)
          ELSE IF e.status >= 500 THEN Error(MsgPriceServer)
          ELSE Error(MsgPriceStatusHead \o IntToDec(e.status) \o MsgPriceStatusTail))
    ELSE e

\* the catch block of getEthUsdPrice
RemapPriceError(e) ==
    IF e.code = "ECONNABORTED" THEN Error(MsgPriceTimeout)
    ELSE IF e.code = "ENOTFOUND" \/ e.code = "ECONNREFUSED" THEN Error(MsgPriceConnect)
    ELSE IF e.status # 0
    THEN (IF e.status = 429 THEN Error(MsgPriceRateLimit)
          ELSE IF e.status >= 500 THEN Error(MsgPriceServer)
          ELSE Error(MsgPriceStatusHead \o IntToDec(e.status) \o MsgPriceStatusTail))
    ELSE IF Includes(e.message, NeedleInvalid) THEN e
    ELSE Error(MsgPriceGeneric)

\* CheckPriceResponse without the check "!isFinite(usdcEquivalent)"
CheckPriceResponseUnbounded(http) ==
    IF ~http.ok THEN Thrown(http.err)
    ELSE IF ~http.body.data \/ ~http.body.ethereum \/ ~Truthy(http.body.usd)
    THEN Thrown(Error(MsgInvalidFormat))
    ELSE IF \/ http.body.usd.t # "number"
            \/ NumClass(http.body.usd) \in {"zero", "neg", "neginf"}
    THEN Thrown(Error(MsgInvalidPrice))
    ELSE Returned(http.body.usd)

\* the try block of getEthUsdPrice once axios.get has settled
CheckPriceResponse(http) ==
    IF ~http.ok THEN Thrown(http.err)
    ELSE IF ~http.body.data \/ ~http.body.ethereum \/ ~Truthy(http.body.usd)
    THEN Thrown(Error(MsgInvalidFormat))
    ELSE IF \/ http.body.usd.t # "number"
            \/ NumClass(http.body.usd) \in {"zero", "neg", "neginf"}
            \/ NumClass(http.body.usd) \in {"nan", "posinf", "neginf"}
    THEN Thrown(Error(MsgInvalidPrice))
    ELSE Returned(http.body.usd)

getEthUsdPrice(http) ==
    LET tried == CheckPriceResponse(http)
    IN  IF tried.ok THEN tried ELSE Thrown(RemapPriceError(tried.err))

(***************************************************************************)
(* Command dispatcher (cli.js)                                             *)
(***************************************************************************)
ErrInvalidAddress ==
    <<"E","r","r","o","r",":"," ","I","n","v","a","l","i","d"," ","r","e","c","i","p","i","e",
      "n","t"," ","a","d","d","r","e","s","s">>
HintInvalidAddress ==
    <<"P","l","e","a","s","e"," ","p","r","o","v","i","d","e"," ","a"," ","v","a","l","i","d",
      " ","E","t","h","e","r","e","u","m"," ","a","d","d","r","e","s","s"," ","(","0","x",".",
      ".","."," ","f","o","r","m","a","t",")">>
ErrInvalidValue ==
    <<"E","r","r","o","r",":"," ","I","n","v","a","l","i","d"," ","E","T","H"," ","v","a","l",
      "u","e">>
HintInvalidValue ==
    <<"P","l","e","a","s","e"," ","p","r","o","v","i","d","e"," ","a"," ","p","o","s","i","t",
      "i","v","e"," ","n","u","m","b","e","r"," ","(","e",".","g",".",","," ","0",".","1",",",
      " ","1",".","5",")">>
ErrInvalidNetworkHead ==
    <<"E","r","r","o","r",":"," ","I","n","v","a","l","i","d"," ","n","e","t","w","o","r","k",
      " ","\"">>
HintNetworks == <<"S","u","p","p","o","r","t","e","d"," ","n","e","t","w","o","r","k","s",":"," ">>
ErrPrefix == <<"E","r","r","o","r",":"," ">>

validNetworks == <<NetBase, NetBaseSepolia>>

\* Array.prototype.includes
ArrayIncludes(arr, x) == \E i \in 1..Len(arr) : arr[i] = x

\* the three validations of handleTransfer: the lines written to standard
\* error by the first one that fails, or none
ValidationFailure(options) ==
    IF ~isValidAddress(options.to) THEN <<ErrInvalidAddress, HintInvalidAddress>>
    ELSE IF ~isPositiveNumber(options.value) THEN <<ErrInvalidValue, HintInvalidValue>>
    ELSE IF ~ArrayIncludes(validNetworks, options.network)
    THEN <<ErrInvalidNetworkHead \o options.network \o <<"\"">>,
           HintNetworks \o Join(validNetworks, <<",", " ">>)>>
    ELSE <<>>

\* the stablecoin figure of the Total Cost line: the number computed from
\* the total and the rate; the other two lines carry no figure
UsdcNone == [shown |-> "none", eth |-> BigZero, rate |-> <<>>]
UsdcFigure(totalWei, ethPrice) == [shown |-> "number", eth |-> totalWei, rate |-> ethPrice.v]

displayResults(estimation, ethPrice) ==
    << [label |-> "Gas Units", amount |-> estimation.gasUnits, usdc |-> UsdcNone],
       [label |-> "Gas Price", amount |-> estimation.gasPriceWei, usdc |-> UsdcNone],
       [label |-> "Total Cost", amount |-> estimation.totalWei,
        usdc |-> UsdcFigure(estimation.totalWei, ethPrice)] >>

(***************************************************************************)
(* The two asynchronous calls                                              *)
(***************************************************************************)
NoOutcome == Thrown(NoError)
NoGasOutcome == [ok |-> FALSE, val |-> BigZero, err |-> NoError]
NoTransaction == [to |-> <<>>, value |-> BigZero]

PriceIdle == [st |-> "idle", out |-> NoOutcome]
PricePending == [st |-> "pending", out |-> NoOutcome]

EstIdle ==
    [st |-> "idle", rpcUrl |-> JsUndefined, transaction |-> NoTransaction,
     feeData |-> NoFeeData, gas |-> NoGasOutcome, out |-> NoOutcome]

\* estimateEthTransfer from its call to its first await (getFeeData), or to
\* the rejection its validation ends in
EstimateStart(to, valueEth, rpcUrl) ==
    LET v == ValidateTransfer(to, valueEth)
    IN  IF v.ok
        THEN [EstIdle EXCEPT !.st = "awaitFeeData", !.rpcUrl = rpcUrl,
                             !.transaction = [to |-> to.v, value |-> v.val.mag]]
        ELSE [EstIdle EXCEPT !.st = "rejected", !.rpcUrl = rpcUrl,
                             !.out = Thrown(RemapEstimatorError(v.err))]

\* the requests a call of estimateEthTransfer has issued when it first yields
EstimateStartRequests(e) == IF e.st = "awaitFeeData" THEN <<"getFeeData">> ELSE <<>>

\* "await provider.getFeeData()" settles: on to estimateGas, or rejected
EstimateAfterFeeData(e, answer) ==
    IF answer.ok
    THEN [e EXCEPT !.st = "awaitEstimateGas",
                   !.feeData = GetFeeData(answer.baseFee, answer.gasPrice, answer.priorityFee)]
    ELSE [e EXCEPT !.st = "rejected", !.out = Thrown(RemapEstimatorError(answer.err))]

\* "await provider.estimateGas(transaction)" settles: the promise settles
EstimateAfterGas(e, gas) ==
    LET out == AfterEstimateGas(e.feeData, gas)
    IN  [e EXCEPT !.st = IF out.ok THEN "fulfilled" ELSE "rejected",
                  !.gas = gas, !.out = out]

\* axios.get settles: the promise of getEthUsdPrice settles
PriceAfterResponse(http) ==
    LET out == getEthUsdPrice(http)
    IN  [st |-> IF out.ok THEN "fulfilled" ELSE "rejected", out |-> out]

\* handleTransfer after "await Promise.all([...])": the catch block on the
\* first rejection, displayResults once both are fulfilled, else still waiting
AwaitAll(p, e) ==
    IF p.st = "rejected"
    THEN [pc |-> "exited", exitCode |-> "1", stdout |-> <<>>,
          stderr |-> <<ErrPrefix \o p.out.err.message>>]
    ELSE IF e.st = "rejected"
    THEN [pc |-> "exited", exitCode |-> "1", stdout |-> <<>>,
          stderr |-> <<ErrPrefix \o e.out.err.message>>]
    ELSE IF p.st = "fulfilled" /\ e.st = "fulfilled"
    THEN [pc |-> "exited", exitCode |-> "0",
          stdout |-> displayResults(e.out.val, p.out.val), stderr |-> <<>>]
    ELSE [pc |-> "awaitAll", exitCode |-> "none", stdout |-> <<>>, stderr |-> <<>>]

\* the continuation of the caller when one of the calls has moved: the
\* command's, or none when the function was called directly
React(p, e) ==
    IF mode = "cli"
    THEN LET r == AwaitAll(p, e)
         IN  /\ pc' = r.pc /\ exitCode' = r.exitCode
             /\ stdout' = r.stdout /\ stderr' = r.stderr
    ELSE UNCHANGED <<pc, exitCode, stdout, stderr>>

(***************************************************************************)
(* Inputs: command lines, direct calls, and what the two remote endpoints  *)
(* can answer                                                              *)
(***************************************************************************)
MaxFee == 1
MaxGasOffset == 1
MaxDecimalLen == 3

ValTenth == <<"0",".","1">>
ValOneAndHalf == <<"1",".","5">>
ValZero == <<"0">>
ValMinusOne == <<"-","1">>
ValWord == <<"a","b","c">>
ValDigitsThenText == <<"1","a","b","c">>
ValEmpty == <<>>

ToOptions ==
    {JsString(a) : a \in {AddrChecksummed, AddrLowerCase, AddrBadChecksum,
                          AddrNoPrefix, AddrShort, AddrEmpty}}
ValueOptions ==
    {JsString(v) : v \in {ValTenth, ValOneAndHalf, ValZero, ValMinusOne, ValWord,
                          ValDigitsThenText, ValEmpty}}
NetworkOptions == {NetBase, NetBaseSepolia, NetUnknown}

\* estimateEthTransfer is exported: its callers pass any value
ToArguments ==
    ToOptions \cup {JsString(AddrIcap), JsString(AddrNonHex), JsString(AddrWord),
                    JsUndefined, JsNumber(<<"1","2","3">>)}
ValueArguments == ValueOptions \cup {JsNumber(ValTenth), JsNumber(ValMinusOne), JsUndefined}

NetworkArguments ==
    NetworkOptions \cup ObjectPrototypeKeys \cup {NetInvalid, NetUpper, <<>>}

\* isPositiveNumber and isValidAddress are exported: their callers pass any value
PositiveNumberArguments ==
    ValueArguments
    \cup {JsString(InfinityLiteral), JsNumber(InfinityLiteral), JsNumber(ValZero), JsObject}
AddressArguments == ToArguments \cup {JsString(AddrLowerCaseSum), JsObject}

\* trimDecimals is exported: decimal strings over a small alphabet, the
\* examples of its documentation, and a value that is not a string
DecimalAlphabet == {"0", "1", "."}
ShortTexts ==
    UNION {{[i \in 1..n |-> f[i]] : f \in [1..n -> DecimalAlphabet]} : n \in 1..MaxDecimalLen}
DecOnePointFive00 == <<"1",".","5","0","0">>
DecOnePoint000 == <<"1",".","0","0","0">>
DecTwentyOneThousand == <<"2","1","0","0","0">>
DecTenPointZero == <<"1","0",".","0">>
DecimalArguments ==
    {JsString(s) : s \in {t \in ShortTexts : \E i \in 1..Len(t) : t[i] \in Digits}
                        \cup {DecOnePointFive00, DecOnePoint000, DecTwentyOneThousand,
                              DecTenPointZero}}
    \cup {JsNumber(ValOneAndHalf), JsUndefined}

\* formatGweiFromWei and formatEthFromWei are exported: amounts in wei as
\* bigints, one as a string, and text that is no number
WeiDigits ==
    { <<"0">>, <<"1">>, <<"1","5","0","0">>,
      <<"9","9","9","9","9","9","5","0","0">>,
      <<"1","0","0","0","0","0","0","0","0","0">>,
      <<"1","5","0","0","0","0","0","0","0","0">>,
      <<"1","2","3","4","5","6","7","8","9","0">>,
      <<"9","9","9","9","9","9","9","9","9","6","0","0">>,
      <<"1","0","0","0","0","0","0","0","0","0","0","0","0">>,
      <<"1","0","0","0","5","0","0","0","0","0","0","0","0">>,
      <<"9","9","9","9","9","9","9","9","9","9","9","9","9","9","9">>,
      <<"1","0","0","0","0","0","0","0","0","0","0","0","0","0","0","0">>,
      <<"1","0","0","0","0","0","0","0","0","0","0","0","0","0","0","0","0","0">>,
      <<"1","0","0","0","0","0","0","0","0","0","0","0","0","0","0","0","0","0","0">>,
      <<"1","0","0","0","0","0","0","5","0","0","0","0","0","0","0","0","0","0","1">>,
      <<"1","0","0","0","0","0","0","0","0","0","0","0","0","0","0","0","0","0","0","0">>,
      <<"1","8","0","1","4","3","9","8","5","0","9","4","8","1","9","8","6","0","0","0","0","0","0","0","0","0">> }
WeiArguments ==
    {JsBigInt(DecToBig(s, BigZero)) : s \in WeiDigits}
    \cup {JsString(<<"1","0","0","0","0","0","0","0","0","0">>), JsString(ValWord)}

StandardTransferGas == 21000

FeeValues == {None} \cup {Some(ToBig(k)) : k \in 0..MaxFee}
FeeAnswers ==
    {[ok |-> TRUE, baseFee |-> b, gasPrice |-> g, priorityFee |-> p, err |-> NoError] :
        b \in FeeValues, g \in FeeValues, p \in {None, Some(ToBig(MaxFee))}}
    \cup {[ok |-> FALSE, baseFee |-> None, gasPrice |-> None, priorityFee |-> None,
           err |-> e] : e \in RpcErrors}

GasLimits ==
    {BigZero}
    \cup {ToBig(StandardTransferGas + k) : k \in 0..MaxGasOffset}
    \cup {BigAdd(BigPow2(DoubleMantissaBits), ToBig(k)) : k \in 0..MaxGasOffset}
GasAnswers ==
    {[ok |-> TRUE, val |-> g, err |-> NoError] : g \in GasLimits}
    \cup {[ok |-> FALSE, val |-> BigZero, err |-> e] : e \in RpcErrors}

PriceNumber == <<"3","4","5","0",".","2","5">>
UsdValues ==
    { JsUndefined, [t |-> "null", v |-> <<>>], [t |-> "boolean", v |-> <<"t","r","u","e">>],
      JsString(PriceNumber), JsNumber(PriceNumber), JsNumber(ValZero),
      JsNumber(ValMinusOne), JsNumber(InfinityLiteral) }
PriceBodies ==
    { NoBody, [data |-> TRUE, ethereum |-> FALSE, usd |-> JsUndefined] }
    \cup {[data |-> TRUE, ethereum |-> TRUE, usd |-> u] : u \in UsdValues}

HttpErrorStatuses == {304, 404, 429, 500, 503}
AxiosErrors ==
    { [message |-> AxiosMsgTimeout, code |-> "ECONNABORTED", status |-> 0],
      [message |-> AxiosMsgNotFound, code |-> "ENOTFOUND", status |-> 0],
      [message |-> AxiosMsgRefused, code |-> "ECONNREFUSED", status |-> 0],
      [message |-> AxiosMsgReset, code |-> "ECONNRESET", status |-> 0],
      [message |-> AxiosMsgTimedOut, code |-> "ETIMEDOUT", status |-> 0] }
    \cup {[message |-> AxiosMsgStatusHead \o IntToDec(s),
           code |-> IF s >= 500 THEN "ERR_BAD_RESPONSE" ELSE "ERR_BAD_REQUEST",
           status |-> s] : s \in HttpErrorStatuses}
HttpOutcomes == {HttpResponse(b) : b \in PriceBodies} \cup {HttpError(e) : e \in AxiosErrors}

(***************************************************************************)
(* State machine                                                           *)
(***************************************************************************)
NoCall == [fn |-> "", arg |-> <<>>, out |-> NoOutcome]
NoArgs == [to |-> JsUndefined, value |-> JsUndefined, network |-> <<>>]

Init ==
    /\ mode = "init"
    /\ args = NoArgs
    /\ pc = "idle"
    /\ exitCode = "none"
    /\ stdout = <<>>
    /\ stderr = <<>>
    /\ net = <<>>
    /\ price = PriceIdle
    /\ est = EstIdle
    /\ ret = NoCall

\* the process is running and has not called process.exit
Alive == pc # "exited"

\* StartBoth with the estimation left for after the price: only the price
\* request is started
StartPriceOnly(options, rpcUrl) ==
    /\ price' = PricePending
    /\ est' = est
    /\ net' = <<"price">>
    /\ pc' = "awaitAll"
    /\ UNCHANGED <<exitCode, stdout, stderr>>

\* the array handed to Promise.all: getEthUsdPrice() is called, then
\* estimateEthTransfer(...), each running to its first await; then the await
StartBoth(options, rpcUrl) ==
    LET e == EstimateStart(options.to, options.value, rpcUrl)
    IN  /\ price' = PricePending
        /\ est' = e
        /\ net' = <<"price">> \o EstimateStartRequests(e)
        /\ LET r == AwaitAll(PricePending, e)
           IN  /\ pc' = r.pc /\ exitCode' = r.exitCode
               /\ stdout' = r.stdout /\ stderr' = r.stderr

\* "base-gas transfer --to .. --value .. --network ..": handleTransfer up to
\* process.exit(1) or to "await Promise.all"
HandleTransfer(options) ==
    /\ mode = "init"
    /\ mode' = "cli"
    /\ args' = options
    /\ ret' = ret
    /\ LET failure == ValidationFailure(options)
           rpc == getRpcUrl(options.network)
       IN  IF failure # <<>>
           THEN /\ stderr' = failure
                /\ exitCode' = "1"
                /\ pc' = "exited"
                /\ UNCHANGED <<stdout, net, price, est>>
           ELSE IF ~rpc.ok
           THEN /\ stderr' = <<ErrPrefix \o rpc.err.message>>
                /\ exitCode' = "1"
                /\ pc' = "exited"
                /\ UNCHANGED <<stdout, net, price, est>>
           ELSE StartBoth(options, rpc.val)

\* a direct call of estimateEthTransfer({to, valueEth, rpcUrl})
CallEstimate(to, valueEth) ==
    /\ mode = "init"
    /\ mode' = "estimate"
    /\ args' = [to |-> to, value |-> valueEth, network |-> <<>>]
    /\ LET e == EstimateStart(to, valueEth, JsString(UrlBase))
       IN  /\ est' = e
           /\ net' = EstimateStartRequests(e)
    /\ UNCHANGED <<pc, exitCode, stdout, stderr, price, ret>>

\* a direct call of getEthUsdPrice()
CallPrice ==
    /\ mode = "init"
    /\ mode' = "price"
    /\ price' = PricePending
    /\ net' = <<"price">>
    /\ UNCHANGED <<args, pc, exitCode, stdout, stderr, est, ret>>

\* a direct call of getRpcUrl(network)
CallGetRpcUrl(network) ==
    /\ mode = "init"
    /\ mode' = "utils"
    /\ ret' = [fn |-> "getRpcUrl", arg |-> network, out |-> getRpcUrl(network)]
    /\ UNCHANGED <<args, pc, exitCode, stdout, stderr, net, price, est>>

\* a direct call of isPositiveNumber(value)
CallIsPositiveNumber(value) ==
    /\ mode = "init"
    /\ mode' = "utils"
    /\ ret' = [fn |-> "isPositiveNumber", arg |-> value,
               out |-> Returned(JsBoolean(isPositiveNumber(value)))]
    /\ UNCHANGED <<args, pc, exitCode, stdout, stderr, net, price, est>>

\* a direct call of isValidAddress(address)
CallIsValidAddress(address) ==
    /\ mode = "init"
    /\ mode' = "utils"
    /\ ret' = [fn |-> "isValidAddress", arg |-> address,
               out |-> Returned(JsBoolean(isValidAddress(address)))]
    /\ UNCHANGED <<args, pc, exitCode, stdout, stderr, net, price, est>>

\* a direct call of trimDecimals(decimalStr)
CallTrimDecimals(decimalStr) ==
    /\ mode = "init"
    /\ mode' = "utils"
    /\ ret' = [fn |-> "trimDecimals", arg |-> decimalStr,
               out |-> Returned(trimDecimals(decimalStr))]
    /\ UNCHANGED <<args, pc, exitCode, stdout, stderr, net, price, est>>

\* a direct call of formatGweiFromWei(weiAmount)
CallFormatGwei(weiAmount) ==
    /\ mode = "init"
    /\ mode' = "utils"
    /\ ret' = [fn |-> "formatGweiFromWei", arg |-> weiAmount,
               out |-> formatGweiFromWei(weiAmount)]
    /\ UNCHANGED <<args, pc, exitCode, stdout, stderr, net, price, est>>

\* a direct call of formatEthFromWei(weiAmount)
CallFormatEth(weiAmount) ==
    /\ mode = "init"
    /\ mode' = "utils"
    /\ ret' = [fn |-> "formatEthFromWei", arg |-> weiAmount,
               out |-> formatEthFromWei(weiAmount)]
    /\ UNCHANGED <<args, pc, exitCode, stdout, stderr, net, price, est>>

\* the price endpoint answers, or the request fails
PriceSettle(http) ==
    /\ Alive
    /\ price.st = "pending"
    /\ price' = PriceAfterResponse(http)
    /\ React(price', est)
    /\ UNCHANGED <<mode, args, net, est, ret>>

\* the node answers getFeeData, or the request fails
FeeDataSettle(answer) ==
    /\ Alive
    /\ est.st = "awaitFeeData"
    /\ est' = EstimateAfterFeeData(est, answer)
    /\ net' = IF answer.ok THEN Append(net, "estimateGas") ELSE net
    /\ React(price, est')
    /\ UNCHANGED <<mode, args, price, ret>>

\* the node answers estimateGas, or the request fails
EstimateGasSettle(gas) ==
    /\ Alive
    /\ est.st = "awaitEstimateGas"
    /\ est' = EstimateAfterGas(est, gas)
    /\ React(price, est')
    /\ UNCHANGED <<mode, args, net, price, ret>>

Next ==
    \/ \E to \in ToOptions, value \in ValueOptions, network \in NetworkOptions :
           HandleTransfer([to |-> to, value |-> value, network |-> network])
    \/ \E to \in ToArguments, valueEth \in ValueArguments : CallEstimate(to, valueEth)
    \/ CallPrice
    \/ \E network \in NetworkArguments : CallGetRpcUrl(network)
    \/ \E value \in PositiveNumberArguments : CallIsPositiveNumber(value)
    \/ \E address \in AddressArguments : CallIsValidAddress(address)
    \/ \E decimalStr \in DecimalArguments : CallTrimDecimals(decimalStr)
    \/ \E weiAmount \in WeiArguments : CallFormatGwei(weiAmount)
    \/ \E weiAmount \in WeiArguments : CallFormatEth(weiAmount)
    \/ \E http \in HttpOutcomes : PriceSettle(http)
    \/ \E answer \in FeeAnswers : FeeDataSettle(answer)
    \/ \E gas \in GasAnswers : EstimateGasSettle(gas)

Spec == Init /\ [][Next]_vars

(***************************************************************************)
(* What the specification calls valid input                                *)
(***************************************************************************)
\* digits with at most one decimal point and at least one digit
IsDecimalText(s) ==
    /\ AllIn(s, Digits \cup {"."})
    /\ Cardinality({i \in 1..Len(s) : s[i] = "."}) <= 1
    /\ \E i \in 1..Len(s) : s[i] \in Digits

\* a decimal number strictly greater than zero
IsPositiveDecimalText(s) ==
    IsDecimalText(s) /\ \E i \in 1..Len(s) : s[i] \in Digits \ {"0"}

\* 0x, 40 hexadecimal digits, and the checksum casing when the case is mixed
IsChecksummedAddressText(s) ==
    MatchesAddressRegex(s) /\ (~IsMixedCase(s) \/ GetChecksumAddress(s) = s)

InvalidOptions(o) ==
    \/ o.to.t # "string" \/ ~IsChecksummedAddressText(o.to.v)
    \/ o.value.t # "string" \/ ~IsPositiveDecimalText(o.value.v)
    \/ o.network \notin {NetBase, NetBaseSepolia}

\* not a string of the form 0x followed by 40 hexadecimal digits
BadRecipient(to) == to.t # "string" \/ ~MatchesAddressRegex(to.v)

\* a decimal amount, signed or not
IsSignedDecimalText(s) ==
    IsDecimalText(s) \/ (Len(s) > 0 /\ s[1] = "-" /\ IsDecimalText(Tail(s)))

\* unparsable as an amount of ether, or below zero
BadValue(v) ==
    \/ v.t \notin {"string", "number"}
    \/ ~IsSignedDecimalText(v.v)
    \/ (v.v[1] = "-" /\ IsPositiveDecimalText(Tail(v.v)))

IsRpcRequest(r) == r \in {"getFeeData", "estimateGas"}
NoRpcIssued == \A i \in 1..Len(net) : ~IsRpcRequest(net[i])

\* the kind of a failure of getEthUsdPrice, from its message
PriceErrorKind(e) ==
    IF e.message = MsgPriceTimeout THEN "Timeout"
    ELSE IF e.message = MsgPriceConnect THEN "ConnectionFailed"
    ELSE IF e.message = MsgPriceRateLimit THEN "RateLimited"
    ELSE IF e.message = MsgPriceServer THEN "ServerError"
    ELSE IF e.message \in {MsgInvalidFormat, MsgInvalidPrice} THEN "InvalidResponse"
    ELSE IF StartsWith(e.message, MsgPriceStatusHead) THEN "ApiError"
    ELSE IF e.message = MsgPriceGeneric THEN "FetchFailed"
    ELSE "Unknown"

FiveKinds == {"Timeout", "ConnectionFailed", "RateLimited", "ServerError", "InvalidResponse"}

(***************************************************************************)
(* The number a decimal string denotes                                     *)
(***************************************************************************)
PointAt(s) == IF \E i \in 1..Len(s) : s[i] = "." THEN CHOOSE i \in 1..Len(s) : s[i] = "." ELSE Len(s) + 1

\* the digits before the point, without leading zeros
WholeDigits(s) ==
    LET w == SubSeq(s, 1, PointAt(s) - 1)
        k == FirstNonZero(w)
    IN  IF k = 0 THEN <<>> ELSE Drop(w, k - 1)

\* the index of the last digit that is not 0; 0 if none
LastNonZero(s) ==
    IF \E i \in 1..Len(s) : s[i] # "0"
    THEN CHOOSE i \in 1..Len(s) : s[i] # "0" /\ \A j \in (i + 1)..Len(s) : s[j] = "0"
    ELSE 0

\* the digits after the point, without trailing zeros
FractionDigits(s) ==
    LET f == Drop(s, PointAt(s)) IN SubSeq(f, 1, LastNonZero(f))

\* two decimal strings denote the same number
SameDecimalValue(a, b) ==
    /\ IsDecimalText(a) /\ IsDecimalText(b)
    /\ WholeDigits(a) = WholeDigits(b)
    /\ FractionDigits(a) = FractionDigits(b)

\* the number of digits after the point
DecimalPlaces(r) == IF PointAt(r) > Len(r) THEN 0 ELSE Len(r) - PointAt(r)

\* the decimal text r as a count of units of 10^-scale
TextInUnits(r, scale) ==
    DecToBig(SubSeq(r, 1, PointAt(r) - 1) \o Drop(r, PointAt(r))
                 \o Zeros(scale - DecimalPlaces(r)), BigZero)

\* r renders a / 10^scale with at most d decimal places: it has no more
\* digits after the point, and is less than one unit of the d-th place
\* away from the quotient (rounded or cut, either way)
RendersWithin(r, a, scale, d) ==
    /\ IsDecimalText(r)
    /\ DecimalPlaces(r) <= d
    /\ BigLt(TextInUnits(r, scale), BigAdd(a, Pow10(scale - d)))
    /\ BigLt(a, BigAdd(TextInUnits(r, scale), Pow10(scale - d)))

\* no trailing zero in the fractional part and no trailing point
IsTrimmed(r) == PointAt(r) <= Len(r) => r[Len(r)] \notin {"0", "."}

\* the decimal places of the tier of a wei: 0 from 1000 Gwei, 3 from 1 Gwei, else 6
GweiPlaces(a) ==
    IF BigLe(Pow10(12), a) THEN 0 ELSE IF BigLe(Pow10(9), a) THEN 3 ELSE 6

\* the decimal places of the tier of a wei: 6 from 0.001 ETH, else 9
EthPlaces(a) == IF BigLe(Pow10(15), a) THEN 6 ELSE 9

(***************************************************************************)
(* Claims                                                                  *)
(***************************************************************************)

\* C1: in the transfer command, when validation passes and the estimation
\* succeeds but the price fetch fails, the three result lines are printed
\* with N/A for the USDC figure and the exit code is 0.
C1_PriceFailureDegrades ==
    (mode = "cli" /\ pc = "exited" /\ ValidationFailure(args) = <<>>
        /\ est.st = "fulfilled" /\ price.st = "rejected")
    => /\ exitCode = "0"
       /\ Len(stdout) = 3
       /\ stdout[1].label = "Gas Units"
       /\ stdout[2].label = "Gas Price"
       /\ stdout[3].label = "Total Cost"
       /\ stdout[3].usdc.shown = "N/A"

\* C2: when estimateGas fails while a fee rate is available,
\* estimateEthTransfer still returns a result, with gasUnits = 21000.
C2_GasEstimateFallback ==
    (est.gas.err # NoError /\ BigTruthy(SelectGasPrice(est.feeData)))
    => (est.st = "fulfilled" /\ est.out.val.gasUnits = ToBig(StandardTransferGas))

\* C3: every result of estimateEthTransfer has totalWei = gasUnits * gasPriceWei
\* exactly.
C3_TotalIsProduct ==
    est.st = "fulfilled"
    => est.out.val.totalWei = BigMul(est.out.val.gasUnits, est.out.val.gasPriceWei)

\* C4: in the transfer command, an invalid --to, --value or --network ends
\* the command with exit code 1 and no price or RPC request is ever issued.
C4_InvalidInputIssuesNothing ==
    (mode = "cli" /\ InvalidOptions(args))
    => (pc = "exited" /\ exitCode = "1" /\ net = <<>>)

\* C5: estimateEthTransfer called with a recipient that is not 0x and 40 hex
\* digits, or with an unparsable or negative value, fails with an address or
\* value validation error and has issued neither getFeeData nor estimateGas.
C5_EstimatorRejectsBeforeRpc ==
    (est.st # "idle" /\ (BadRecipient(args.to) \/ BadValue(args.value)))
    => /\ est.st = "rejected"
       /\ est.out.err.message \in {MsgInvalidRecipient, MsgInvalidEthValue, MsgNegativeValue}
       /\ NoRpcIssued

C5_Witness ==
    /\ mode = "estimate" /\ est.st = "rejected"
    /\ ~BadRecipient(args.to) /\ BadValue(args.value)
    /\ args.value.v = ValMinusOne

\* C6: when the fee data holds a maxFeePerGas, the result's gasPriceWei is
\* that value; the legacy gasPrice is used only when maxFeePerGas is absent.
C6_PrefersMaxFee ==
    (est.st = "fulfilled" /\ est.feeData.maxFeePerGas.some)
    => est.out.val.gasPriceWei = est.feeData.maxFeePerGas.v

C6_Witness ==
    /\ est.st = "fulfilled"
    /\ est.feeData.maxFeePerGas.some /\ BigTruthy(est.feeData.gasPrice)
    /\ est.feeData.gasPrice.v # est.feeData.maxFeePerGas.v

\* C7: a value returned by getEthUsdPrice is a number, finite and strictly
\* greater than zero, whatever body the price endpoint sent.
C7_PriceIsPositiveFinite ==
    price.st = "fulfilled"
    => (price.out.val.t = "number" /\ NumClass(price.out.val) = "pos")

C7_Witness == mode = "price" /\ price.st = "fulfilled"

C9_StartedTogetherJoinedBeforeOutput ==
    mode = "cli"
    => /\ (price.st = "idle") <=> (est.st = "idle")
       /\ pc = "awaitAll" => (price.st # "idle" /\ est.st # "idle")
       /\ stdout # <<>> => (price.st = "fulfilled" /\ est.st = "fulfilled")

C9_Witness ==
    /\ mode = "cli" /\ Len(stdout) = 3
    /\ price.st = "fulfilled" /\ est.st = "fulfilled"

\* C10: getRpcUrl returns https://mainnet.base.org for "base" and
\* https://sepolia.base.org for "base-sepolia", and fails for every other
\* identifier with a message that lists "base, base-sepolia".
C10_GetRpcUrl ==
    ret.fn = "getRpcUrl"
    => IF ret.arg = NetBase THEN ret.out = Returned(JsString(UrlBase))
       ELSE IF ret.arg = NetBaseSepolia THEN ret.out = Returned(JsString(UrlBaseSepolia))
       ELSE /\ ~ret.out.ok
            /\ Includes(ret.out.err.message, Join(<<NetBase, NetBaseSepolia>>, <<",", " ">>))
\* C11: isPositiveNumber returns true only if its whole input parses as a
\* finite decimal number strictly greater than zero; everything else,
\* text that merely starts with digits included, gives false.
C11_PositiveNumberWholeInput ==
    ret.fn = "isPositiveNumber"
    => /\ ret.out.ok
       /\ ret.out.val = JsBoolean(TRUE)
            => (ret.arg.t \in {"string", "number"} /\ IsPositiveDecimalText(ret.arg.v))

\* C12: isValidAddress never throws, and returns true only for strings of
\* exactly 42 characters, 0x and 40 hexadecimal digits, matching the
\* checksum when their case is mixed.
C12_ValidAddressShape ==
    ret.fn = "isValidAddress"
    => /\ ret.out.ok
       /\ ret.out.val = JsBoolean(TRUE)
            => /\ ret.arg.t = "string"
               /\ Len(ret.arg.v) = 42
               /\ IsChecksummedAddressText(ret.arg.v)

\* C13: trimDecimals is idempotent: for every decimal string s,
\* trimDecimals(trimDecimals(s)) = trimDecimals(s).
C13_TrimDecimalsIdempotent ==
    (ret.fn = "trimDecimals" /\ ret.arg.t = "string" /\ IsDecimalText(ret.arg.v))
    => trimDecimals(ret.out.val) = ret.out.val

\* C18: trimDecimals never changes the number its argument denotes, and
\* returns a decimal string with no decimal point unchanged.
C18_TrimDecimalsKeepsValue ==
    (ret.fn = "trimDecimals" /\ ret.arg.t = "string" /\ IsDecimalText(ret.arg.v))
    => /\ SameDecimalValue(ret.arg.v, ret.out.val.v)
       /\ PointAt(ret.arg.v) > Len(ret.arg.v) => ret.out.val = ret.arg

\* C14: formatGweiFromWei(a), for every non-negative integer a, renders
\* a / 10^9 with 0 decimal places from 1000, at most 3 from 1 and at most 6
\* below, with no trailing zero in the fractional part and no trailing point.
C14_GweiTiers ==
    (ret.fn = "formatGweiFromWei" /\ IsBigNumberish(ret.arg))
    => /\ ret.out.ok
       /\ RendersWithin(ret.out.val.v, GetBigInt(ret.arg), GweiDecimals,
                        GweiPlaces(GetBigInt(ret.arg)))
       /\ IsTrimmed(ret.out.val.v)

\* C15: formatEthFromWei(a), for every non-negative integer a, renders
\* a / 10^18 with at most 6 decimal places from 0.001 and at most 9 below,
\* trimmed, and trimDecimals leaves its result unchanged.
C15_EthTiers ==
    (ret.fn = "formatEthFromWei" /\ IsBigNumberish(ret.arg))
    => /\ ret.out.ok
       /\ RendersWithin(ret.out.val.v, GetBigInt(ret.arg), EtherDecimals,
                        EthPlaces(GetBigInt(ret.arg)))
       /\ IsTrimmed(ret.out.val.v)
       /\ trimDecimals(ret.out.val) = ret.out.val

\* C16: every result of estimateEthTransfer (valid recipient, non-negative
\* value) has gasUnits >= 21000, gasPriceWei > 0 and totalWei > 0, whatever
\* gas limit and fee data the endpoint answered.
C16_ResultFloors ==
    est.st = "fulfilled"
    => /\ BigLe(ToBig(StandardTransferGas), est.out.val.gasUnits)
       /\ BigLt(BigZero, est.out.val.gasPriceWei)
       /\ BigLt(BigZero, est.out.val.totalWei)

\* C17: an error estimateEthTransfer raised itself reaches the caller with
\* its own message: the three validation errors, and "Unable to fetch gas
\* price from network" when neither maxFeePerGas nor gasPrice is obtainable.
C17_OwnErrorsKept ==
    /\ (est.st # "idle" /\ ~ValidateTransfer(args.to, args.value).ok)
       => /\ est.st = "rejected"
          /\ est.out.err.message = ValidateTransfer(args.to, args.value).err.message
    /\ (est.gas.ok /\ ~BigTruthy(SelectGasPrice(est.feeData)))
       => /\ est.st = "rejected"
          /\ est.out.err.message = MsgNoGasPrice

====
